---- MODULE Spec2Model ----
(***************************************************************************)
(* Record-data codecs of trust-dns: the SVCB/HTTPS binary reader and       *)
(* emitter (crates/proto/src/rr/rdata/svcb.rs) and the SRV binary and text *)
(* codec (src/rr/rdata/srv.rs).                                            *)
(*                                                                         *)
(* A byte is a number in 0..255, a buffer a sequence of bytes.  A string   *)
(* value of a KeyValue is kept as its UTF-8 byte sequence.                 *)
(***************************************************************************)
EXTENDS Integers, Sequences, FiniteSets, TLC

\* ------------------------------------------------------------------ bounds
MaxParams == 2
MaxTail == 6
MaxTokens == 4
SmallMaxSize == 6
LargeMaxSize == 70000

\* ------------------------------------------------------------ u16 and bytes
U16Mod == 65536

AsU16(n) == n % U16Mod

U16Bytes(n) == << n \div 256, n % 256 >>

RECURSIVE Flatten(_)
Flatten(ss) == IF ss = << >> THEN << >> ELSE Head(ss) \o Flatten(Tail(ss))

\* ------------------------------------------------------------- key registry
SVCBKey ==
  { "Mandatory", "Alpn", "NoDefaultAlpn", "Port", "IPv4Hint", "ECHConfig",
    "IPv6Hint", "ODoHConfig", "Reserved" }

SVCB_MAP_Swapped ==
  (0 :> "Mandatory") @@ (1 :> "Alpn") @@ (2 :> "NoDefaultAlpn") @@
  (3 :> "Port") @@ (4 :> "ECHConfig") @@ (5 :> "IPv4Hint") @@
  (6 :> "IPv6Hint") @@ (32769 :> "ODoHConfig") @@ (65535 :> "Reserved")

SVCB_MAP ==
  (0 :> "Mandatory") @@ (1 :> "Alpn") @@ (2 :> "NoDefaultAlpn") @@
  (3 :> "Port") @@ (4 :> "IPv4Hint") @@ (5 :> "ECHConfig") @@
  (6 :> "IPv6Hint") @@ (32769 :> "ODoHConfig") @@ (65535 :> "Reserved")

\* `kv.key.clone() as u16`: the discriminant of the enum
KeyAsU16(k) ==
  CASE k = "Mandatory" -> 0
    [] k = "Alpn" -> 1
    [] k = "NoDefaultAlpn" -> 2
    [] k = "Port" -> 3
    [] k = "IPv4Hint" -> 4
    [] k = "ECHConfig" -> 5
    [] k = "IPv6Hint" -> 6
    [] k = "ODoHConfig" -> 32769
    [] k = "Reserved" -> 65535

\* ------------------------------------------------------------------- UTF-8
IsCont(b) == b >= 128 /\ b <= 191

\* String::from_utf8 accepts exactly the well-formed UTF-8 sequences
RECURSIVE ValidUtf8(_)
ValidUtf8(bs) ==
  IF bs = << >> THEN TRUE
  ELSE LET b == bs[1]
           n == Len(bs)
       IN  IF b < 128 THEN ValidUtf8(Tail(bs))
           ELSE IF b >= 194 /\ b <= 223
             THEN n >= 2 /\ IsCont(bs[2]) /\ ValidUtf8(SubSeq(bs, 3, n))
           ELSE IF b >= 224 /\ b <= 239
             THEN /\ n >= 3
                  /\ IsCont(bs[2]) /\ IsCont(bs[3])
                  /\ (b = 224 => bs[2] >= 160)
                  /\ (b = 237 => bs[2] <= 159)
                  /\ ValidUtf8(SubSeq(bs, 4, n))
           ELSE IF b >= 240 /\ b <= 244
             THEN /\ n >= 4
                  /\ IsCont(bs[2]) /\ IsCont(bs[3]) /\ IsCont(bs[4])
                  /\ (b = 240 => bs[2] >= 144)
                  /\ (b = 244 => bs[2] <= 143)
                  /\ ValidUtf8(SubSeq(bs, 5, n))
           ELSE FALSE

\* ----------------------------------------------------------------- decoder
\* BinDecoder over buffer w with p bytes already consumed
DecoderLen(w, p) == Len(w) - p

DecoderReadU16(w, p) ==
  IF DecoderLen(w, p) < 2 THEN [ok |-> FALSE]
  ELSE [ok |-> TRUE, v |-> w[p + 1] * 256 + w[p + 2], pos |-> p + 2]

DecoderReadVec(w, p, n) ==
  IF n > DecoderLen(w, p) THEN [ok |-> FALSE]
  ELSE [ok |-> TRUE, v |-> SubSeq(w, p + 1, p + n), pos |-> p + n]

\* Name::read: length-prefixed labels up to the zero label
RECURSIVE NameRead(_, _, _)
NameRead(w, p, labels) ==
  IF DecoderLen(w, p) < 1 THEN [ok |-> FALSE]
  ELSE LET n == w[p + 1]
       IN  IF n = 0 THEN [ok |-> TRUE, v |-> labels, pos |-> p + 1]
           ELSE IF n > 63 \/ n > DecoderLen(w, p + 1) THEN [ok |-> FALSE]
           ELSE NameRead(w, p + 1 + n, Append(labels, SubSeq(w, p + 2, p + 1 + n)))

\* ----------------------------------------------------------------- encoder
\* BinEncoder: e.buf the bytes written, e.ok false once a write has failed
\* (every later write is skipped, as `?` returns from the caller)
EncoderNew(max, canonical) ==
  [ok |-> TRUE, buf |-> << >>, max |-> max, canonical |-> canonical]

EncoderEmitVec(e, bs) ==
  IF ~e.ok THEN e
  ELSE IF Len(e.buf) + Len(bs) > e.max THEN [e EXCEPT !.ok = FALSE]
  ELSE [e EXCEPT !.buf = e.buf \o bs]

EncoderEmitU16(e, n) == EncoderEmitVec(e, U16Bytes(n))

LowerByte(b) == IF b >= 65 /\ b <= 90 THEN b + 32 ELSE b

LowerLabel(l) == [i \in 1..Len(l) |-> LowerByte(l[i])]

LowerName(name) == [i \in 1..Len(name) |-> LowerLabel(name[i])]

RECURSIVE EmitLabels(_, _)
EmitLabels(e, labels) ==
  IF labels = << >> THEN EncoderEmitVec(e, << 0 >>)
  ELSE EmitLabels(EncoderEmitVec(e, << Len(Head(labels)) >> \o Head(labels)),
                  Tail(labels))

\* Name::emit_with_lowercase
NameEmitWithLowercase(e, name, lowercase) ==
  EmitLabels(e, IF lowercase THEN LowerName(name) ELSE name)

\* ------------------------------------------------------------- SVCB values
NoRData == [type |-> "None"]

NoResult == [tag |-> "None"]

KeyValue(k, v) == [key |-> k, value |-> v]

SVCB(priority, target, values) ==
  [type |-> "SVCB", priority |-> priority, target |-> target, values |-> values]

\* `kv.value.len() as u16`: the length field written for one KeyValue
ValueLenField(kv) == AsU16(Len(kv.value))

RECURSIVE EmitValues(_, _)
EmitValues(e, kvs) ==
  IF kvs = << >> THEN e
  ELSE LET kv == Head(kvs)
           e1 == EncoderEmitU16(e, KeyAsU16(kv.key))
           e2 == EncoderEmitU16(e1, ValueLenField(kv))
           e3 == EncoderEmitVec(e2, kv.value)
       IN  EmitValues(e3, Tail(kvs))

\* svcb::emit
SvcbEmitOp(e, svcb) ==
  LET e1 == EncoderEmitU16(e, svcb.priority)
      e2 == NameEmitWithLowercase(e1, svcb.target, e.canonical)
  IN  EmitValues(e2, svcb.values)

LoopGuard_Five(remaining) == remaining > 5

LoopGuard_Three(remaining) == remaining > 3

\* the loop guard of svcb::read
LoopGuard(remaining) == remaining > 4

\* one pass of the loop body of svcb::read at index p of buffer w
ReadKeyValue(w, p) ==
  LET code == DecoderReadU16(w, p)
  IN  IF ~code.ok THEN [tag |-> "Err"]
      ELSE IF code.v \notin DOMAIN SVCB_MAP THEN [tag |-> "Panic"]
      ELSE LET val_len == DecoderReadU16(w, code.pos)
           IN  IF ~val_len.ok THEN [tag |-> "Err"]
               ELSE LET buf == DecoderReadVec(w, val_len.pos, val_len.v)
                    IN  IF ~buf.ok THEN [tag |-> "Err"]
                        ELSE IF ~ValidUtf8(buf.v) THEN [tag |-> "Panic"]
                        ELSE [tag |-> "Ok",
                              kv |-> KeyValue(SVCB_MAP[code.v], buf.v),
                              pos |-> buf.pos]

\* -------------------------------------------------------------- SRV values
SRV(priority, weight, port, target) ==
  [type |-> "SRV", priority |-> priority, weight |-> weight, port |-> port,
   target |-> target]

\* srv::emit
SrvEmitOp(e, srv) ==
  LET e1 == EncoderEmitU16(e, srv.priority)
      e2 == EncoderEmitU16(e1, srv.weight)
      e3 == EncoderEmitU16(e2, srv.port)
  IN  NameEmitWithLowercase(e3, srv.target, FALSE)

SrvReadOp_Swapped(w, p) ==
  LET a == DecoderReadU16(w, p)
  IN  IF ~a.ok THEN [tag |-> "Err"]
      ELSE LET b == DecoderReadU16(w, a.pos)
           IN  IF ~b.ok THEN [tag |-> "Err"]
               ELSE LET c == DecoderReadU16(w, b.pos)
                    IN  IF ~c.ok THEN [tag |-> "Err"]
                        ELSE LET t == NameRead(w, c.pos, << >>)
                             IN  IF ~t.ok THEN [tag |-> "Err"]
                                 ELSE [tag |-> "Ok", v |-> SRV(a.v, c.v, b.v, t.v),
                                       pos |-> t.pos]

\* srv::read
SrvReadOp(w, p) ==
  LET a == DecoderReadU16(w, p)
  IN  IF ~a.ok THEN [tag |-> "Err"]
      ELSE LET b == DecoderReadU16(w, a.pos)
           IN  IF ~b.ok THEN [tag |-> "Err"]
               ELSE LET c == DecoderReadU16(w, b.pos)
                    IN  IF ~c.ok THEN [tag |-> "Err"]
                        ELSE LET t == NameRead(w, c.pos, << >>)
                             IN  IF ~t.ok THEN [tag |-> "Err"]
                                 ELSE [tag |-> "Ok", v |-> SRV(a.v, b.v, c.v, t.v),
                                       pos |-> t.pos]

\* ------------------------------------------------------------ SRV text form
\* a string is a sequence of one-character strings
Digits == "0" :> 0 @@ "1" :> 1 @@ "2" :> 2 @@ "3" :> 3 @@ "4" :> 4 @@
          "5" :> 5 @@ "6" :> 6 @@ "7" :> 7 @@ "8" :> 8 @@ "9" :> 9

RECURSIVE ParseDigits(_, _)
ParseDigits(s, acc) ==
  IF s = << >> THEN [ok |-> TRUE, v |-> acc]
  ELSE IF Head(s) \notin DOMAIN Digits THEN [ok |-> FALSE]
  ELSE LET n == acc * 10 + Digits[Head(s)]
       IN  IF n >= U16Mod THEN [ok |-> FALSE] ELSE ParseDigits(Tail(s), n)

\* str::parse::<u16>: decimal digits after an optional plus sign
ParseU16(s) ==
  LET digits == IF s # << >> /\ Head(s) = "+" THEN Tail(s) ELSE s
  IN  IF digits = << >> THEN [ok |-> FALSE] ELSE ParseDigits(digits, 0)

CharByte == "a" :> 97 @@ "b" :> 98 @@ "A" :> 65 @@ "+" :> 43 @@ "0" :> 48 @@
            "1" :> 49 @@ "2" :> 50 @@ "3" :> 51 @@ "4" :> 52 @@ "5" :> 53 @@
            "6" :> 54 @@ "7" :> 55 @@ "8" :> 56 @@ "9" :> 57

RECURSIVE SplitLabels(_, _, _)
SplitLabels(s, label, labels) ==
  IF s = << >> THEN [ok |-> TRUE, v |-> labels, rest |-> label]
  ELSE IF Head(s) = "."
    THEN IF label = << >> THEN [ok |-> FALSE]
         ELSE SplitLabels(Tail(s), << >>, Append(labels, label))
  ELSE SplitLabels(Tail(s), Append(label, CharByte[Head(s)]), labels)

\* Name::parse: dotted labels; a name without the final dot is relative and
\* gets the origin appended
NameParse(s, origin) ==
  IF s = << "." >> THEN [ok |-> TRUE, v |-> << >>]
  ELSE LET r == SplitLabels(s, << >>, << >>)
       IN  IF ~r.ok THEN [ok |-> FALSE]
           ELSE IF r.rest = << >> THEN [ok |-> TRUE, v |-> r.v]
           ELSE [ok |-> TRUE,
                 v |-> Append(r.v, r.rest) \o (IF origin.some THEN origin.v ELSE << >>)]

MissingToken(field) == [tag |-> "Err", kind |-> "MissingToken", field |-> field]

ParseErr(kind) == [tag |-> "Err", kind |-> kind, field |-> ""]

\* one numeric field of srv::parse: the token at position i, named field
ParseU16Token(toks, i, field) ==
  IF i > Len(toks) THEN MissingToken(field)
  ELSE IF toks[i].type # "CharData" THEN ParseErr("UnexpectedToken")
  ELSE LET n == ParseU16(toks[i].s)
       IN  IF n.ok THEN [tag |-> "Ok", v |-> n.v] ELSE ParseErr("ParseInt")

ParseNameToken(toks, i, field, origin) ==
  IF i > Len(toks) THEN MissingToken(field)
  ELSE IF toks[i].type # "CharData" THEN ParseErr("UnexpectedToken")
  ELSE LET n == NameParse(toks[i].s, origin)
       IN  IF n.ok THEN [tag |-> "Ok", v |-> n.v] ELSE ParseErr("Name")

SrvFields_Swapped == << "priority", "port", "weight", "target" >>

\* the field names of srv::parse, in the order the tokens are taken
SrvFields == << "priority", "weight", "port", "target" >>

\* srv::parse
SrvParseOp(toks, origin) ==
  LET a == ParseU16Token(toks, 1, SrvFields[1])
  IN  IF a.tag # "Ok" THEN a
      ELSE LET b == ParseU16Token(toks, 2, SrvFields[2])
           IN  IF b.tag # "Ok" THEN b
               ELSE LET c == ParseU16Token(toks, 3, SrvFields[3])
                    IN  IF c.tag # "Ok" THEN c
                        ELSE LET t == ParseNameToken(toks, 4, SrvFields[4], origin)
                             IN  IF t.tag # "Ok" THEN t
                                 ELSE [tag |-> "Ok", v |-> SRV(a.v, b.v, c.v, t.v)]

\* ------------------------------------------------------------------- inputs
Priorities == { 1, 65535 }

Names == { << >>, << <<65>>, <<98>> >> }

KeyValues == { KeyValue(k, v) : k \in SVCBKey, v \in { << >>, <<97>> } }
                \cup { KeyValue("Alpn", <<195, 128>>) }

SeqsUpTo(S, n) == UNION { [1..m -> S] : m \in 0..n }

TailBytes == { 0, 1, 2, 128, 195 }

\* a value whose length does not fit the 16-bit length field
BigValue == [i \in 1..(U16Mod + 1) |-> 97]

SvcbInputs ==
  { SVCB(p, t, vs) : p \in Priorities, t \in Names,
                     vs \in SeqsUpTo(KeyValues, MaxParams) }
    \cup { SVCB(1, << >>, << KeyValue("Alpn", BigValue) >>) }

\* the fixed header of an SVCB record on the wire
HeaderBytes(p, t) == U16Bytes(p) \o Flatten([i \in 1..Len(t) |-> <<Len(t[i])>> \o t[i]]) \o <<0>>

Prefixes(bs) == { SubSeq(bs, 1, n) : n \in 0..Len(bs) }

\* key codes met on the wire: the registered ones and some others
Codes == { 0, 1, 2, 3, 4, 5, 6, 7, 32768, 32769, 65534, 65535 }

SvcbWires ==
  { HeaderBytes(p, t) \o tl : p \in {258}, t \in Names,
                             tl \in SeqsUpTo(TailBytes, MaxTail) }
    \cup UNION { Prefixes(HeaderBytes(p, t)) : p \in {258}, t \in Names }
    \cup { HeaderBytes(1, << >>) \o U16Bytes(c) \o <<0, 1, 97>> : c \in Codes }

SrvInputs ==
  { SRV(p, w, q, t) : p \in Priorities, w \in { 2, 256 }, q \in { 3, 65535 },
                      t \in Names }

SrvWires ==
  UNION { Prefixes(SrvEmitOp(EncoderNew(LargeMaxSize, FALSE), v).buf) : v \in SrvInputs }

CharData(s) == [type |-> "CharData", s |-> s]

Strings ==
  { <<"1">>, <<"2">>, <<"+", "7">>, <<"6", "5", "5", "3", "5">>,
    <<"6", "5", "5", "3", "6">>, <<"a">>, <<"A", ".", "b", ".">> }

Tokens == { CharData(s) : s \in Strings } \cup { [type |-> "At", s |-> << >>] }

Origins == { [some |-> FALSE, v |-> << >>], [some |-> TRUE, v |-> << <<98>> >>] }

\* -------------------------------------------------------------------- state
VARIABLES
  flow,        \* which composition of operations this run performs
  pc,          \* the operation (or loop position) to run next
  rdata,       \* the in-memory record handed to emit
  bytes,       \* the buffer the encoder writes into
  encoder,     \* the BinEncoder handed to emit: its settings and state
  decoder,     \* the BinDecoder handed to read: buffer and index
  priority,    \* local of svcb::read
  target,      \* local of svcb::read
  values,      \* local of svcb::read
  read_rdata,  \* what read returned
  tokens,      \* the tokens handed to parse
  origin,      \* the origin handed to parse
  parsed       \* what parse returned

vars == << flow, pc, rdata, bytes, encoder, decoder, priority, target, values,
           read_rdata, tokens, origin, parsed >>

text == << tokens, origin, parsed >>

NoDecoder == [buf |-> << >>, index |-> 0]

Remaining == DecoderLen(decoder.buf, decoder.index)

\* the encoder's fields other than the buffer it writes into
EncoderState(e) == [ok |-> e.ok, max |-> e.max, canonical |-> e.canonical]

\* the encoder e writing into the buffer b
EncoderOver(e, b) == [ok |-> e.ok, buf |-> b, max |-> e.max, canonical |-> e.canonical]

InitLocals ==
  /\ bytes = << >>
  /\ priority = 0
  /\ target = << >>
  /\ values = << >>
  /\ read_rdata = NoResult

InitNoText ==
  /\ tokens = << >>
  /\ origin = [some |-> FALSE, v |-> << >>]
  /\ parsed = NoResult

\* test_parse_from_rdata: a value is emitted, the bytes are read back
InitSvcbEmitRead ==
  /\ flow = "svcb_emit_read"
  /\ pc = "svcb_emit"
  /\ rdata = NoRData
  /\ \E max \in { SmallMaxSize, LargeMaxSize }, c \in BOOLEAN :
       encoder = EncoderState(EncoderNew(max, c))
  /\ decoder = NoDecoder
  /\ InitLocals
  /\ InitNoText

\* a record received from the wire is read, the result emitted again
InitSvcbReadEmit ==
  /\ flow = "svcb_read_emit"
  /\ pc = "svcb_read"
  /\ rdata = NoRData
  /\ encoder = EncoderState(EncoderNew(LargeMaxSize, FALSE))
  /\ \E w \in SvcbWires : decoder = [buf |-> w, index |-> 0]
  /\ InitLocals
  /\ InitNoText

\* the test of srv.rs: a value is emitted, the bytes are read back
InitSrvEmitRead ==
  /\ flow = "srv_emit_read"
  /\ pc = "srv_emit"
  /\ rdata = NoRData
  /\ \E max \in { SmallMaxSize, LargeMaxSize } : encoder = EncoderState(EncoderNew(max, FALSE))
  /\ decoder = NoDecoder
  /\ InitLocals
  /\ InitNoText

\* a record received from the wire, possibly cut short, is read
InitSrvRead ==
  /\ flow = "srv_read"
  /\ pc = "srv_read"
  /\ rdata = NoRData
  /\ encoder = EncoderState(EncoderNew(LargeMaxSize, FALSE))
  /\ \E w \in SrvWires : decoder = [buf |-> w, index |-> 0]
  /\ InitLocals
  /\ InitNoText

\* the tokens of one zone-file record are parsed
InitSrvParse ==
  /\ flow = "srv_parse"
  /\ pc = "srv_parse"
  /\ rdata = NoRData
  /\ encoder = EncoderState(EncoderNew(LargeMaxSize, FALSE))
  /\ decoder = NoDecoder
  /\ InitLocals
  /\ tokens \in SeqsUpTo(Tokens, MaxTokens)
  /\ origin \in Origins
  /\ parsed = NoResult

Init ==
  \/ InitSvcbEmitRead
  \/ InitSvcbReadEmit
  \/ InitSrvEmitRead
  \/ InitSrvRead
  \/ InitSrvParse

\* ------------------------------------------------------------------ actions
\* svcb::emit of a value into the encoder: the value the test builds, or the
\* record that was read
SvcbEmit ==
  /\ pc = "svcb_emit"
  /\ \E v \in (IF flow = "svcb_emit_read" THEN SvcbInputs ELSE { rdata }) :
       /\ rdata' = v
       /\ LET e == SvcbEmitOp(EncoderOver(encoder, bytes), v)
          IN  bytes' = e.buf /\ encoder' = EncoderState(e)
  /\ pc' = IF encoder'.ok /\ flow = "svcb_emit_read" THEN "svcb_read" ELSE "done"
  /\ UNCHANGED << flow, decoder, priority, target, values, read_rdata, text >>

\* the decoder read starts from: over the emitted bytes when the test reads
\* them back (BinDecoder::new(bytes)), else the one over the received record
DecoderAtStart ==
  IF flow \in { "svcb_emit_read", "srv_emit_read" }
    THEN [buf |-> bytes, index |-> 0]
    ELSE decoder

\* svcb::read, lines 108-110: priority, target, the empty list
SvcbReadHeader ==
  /\ pc = "svcb_read"
  /\ LET d == DecoderAtStart
         p == DecoderReadU16(d.buf, d.index)
         t == NameRead(d.buf, p.pos, << >>)
     IN  IF p.ok /\ t.ok
           THEN /\ priority' = p.v
                /\ target' = t.v
                /\ decoder' = [d EXCEPT !.index = t.pos]
                /\ pc' = "svcb_loop"
                /\ UNCHANGED read_rdata
           ELSE /\ read_rdata' = [tag |-> "Err"]
                /\ pc' = "done"
                /\ decoder' = d
                /\ UNCHANGED << priority, target >>
  /\ values' = << >>
  /\ UNCHANGED << flow, rdata, bytes, encoder, text >>

\* svcb::read, lines 111-122: one pass of the loop
SvcbReadValue ==
  /\ pc = "svcb_loop"
  /\ LoopGuard(Remaining)
  /\ LET r == ReadKeyValue(decoder.buf, decoder.index)
     IN  IF r.tag = "Ok"
           THEN /\ values' = Append(values, r.kv)
                /\ decoder' = [decoder EXCEPT !.index = r.pos]
                /\ UNCHANGED << pc, read_rdata >>
           ELSE /\ read_rdata' = [tag |-> r.tag]
                /\ pc' = "done"
                /\ UNCHANGED << values, decoder >>
  /\ UNCHANGED << flow, rdata, bytes, encoder, priority, target, text >>

\* svcb::read, line 123: the loop is left and the record returned
SvcbReadReturn ==
  /\ pc = "svcb_loop"
  /\ ~LoopGuard(Remaining)
  /\ read_rdata' = [tag |-> "Ok", v |-> SVCB(priority, target, values)]
  /\ IF flow = "svcb_read_emit"
       THEN /\ rdata' = read_rdata'.v
            /\ pc' = "svcb_emit"
       ELSE /\ pc' = "done"
            /\ UNCHANGED rdata
  /\ UNCHANGED << flow, bytes, encoder, decoder, priority, target, values, text >>

\* srv::emit into the encoder; the test reads the bytes back
SrvEmit ==
  /\ pc = "srv_emit"
  /\ \E v \in SrvInputs :
       /\ rdata' = v
       /\ LET e == SrvEmitOp(EncoderOver(encoder, bytes), v)
          IN  bytes' = e.buf /\ encoder' = EncoderState(e)
  /\ pc' = IF encoder'.ok THEN "srv_read" ELSE "done"
  /\ UNCHANGED << flow, decoder, priority, target, values, read_rdata, text >>

\* srv::read
SrvRead ==
  /\ pc = "srv_read"
  /\ LET d == DecoderAtStart
         r == SrvReadOp(d.buf, d.index)
     IN  IF r.tag = "Ok"
           THEN /\ read_rdata' = [tag |-> "Ok", v |-> r.v]
                /\ decoder' = [d EXCEPT !.index = r.pos]
           ELSE /\ read_rdata' = r
                /\ decoder' = d
  /\ pc' = "done"
  /\ UNCHANGED << flow, rdata, bytes, encoder, priority, target, values, text >>

\* srv::parse
SrvParse ==
  /\ pc = "srv_parse"
  /\ parsed' = SrvParseOp(tokens, origin)
  /\ pc' = "done"
  /\ UNCHANGED << flow, rdata, bytes, encoder, decoder, priority, target, values,
                  read_rdata, tokens, origin >>

Next ==
  \/ SvcbEmit
  \/ SvcbReadHeader
  \/ SvcbReadValue
  \/ SvcbReadReturn
  \/ SrvEmit
  \/ SrvRead
  \/ SrvParse

Spec == Init /\ [][Next]_vars

\* ---------------------------------------------------- vocabulary of claims
IsSvcbFlow == flow \in { "svcb_emit_read", "svcb_read_emit" }

\* read has returned or aborted
ReadFinished == read_rdata.tag # "None"

\* emit has run on an SVCB value
SvcbEmitDone == IsSvcbFlow /\ rdata.type = "SVCB" /\ pc # "svcb_emit"

RegisteredCodes == { 0, 1, 2, 3, 4, 5, 6, 32769, 65535 }

\* the 16-bit big-endian number after the first p bytes of w, -1 when absent
U16At(w, p) == IF p >= 0 /\ p + 2 <= Len(w) THEN w[p + 1] * 256 + w[p + 2] ELSE -1

\* the number of bytes the fixed header (priority, target) takes in w,
\* -1 when w holds no complete header
HeaderEnd(w) ==
  IF Len(w) < 2 THEN -1
  ELSE LET t == NameRead(w, 2, << >>) IN IF t.ok THEN t.pos ELSE -1

\* the key/length/value slots that lie in w from index p up to index end
RECURSIVE SlotsBetween(_, _, _)
SlotsBetween(w, p, end) ==
  IF p < 0 \/ p >= end \/ p + 4 > Len(w) THEN << >>
  ELSE LET n == U16At(w, p + 2)
       IN  IF p + 4 + n > Len(w) THEN << >>
           ELSE << [code |-> U16At(w, p), value |-> SubSeq(w, p + 5, p + 4 + n),
                    next |-> p + 4 + n] >> \o SlotsBetween(w, p + 4 + n, end)

\* walking the slots of w from index p, some slot that the decode loop enters
\* declares more value bytes than w holds after its length field
RECURSIVE HasUnterminated(_, _)
HasUnterminated(w, p) ==
  IF p < 0 \/ Len(w) - p <= 4 THEN FALSE
  ELSE LET n == U16At(w, p + 2)
       IN  IF n > Len(w) - (p + 4) THEN TRUE ELSE HasUnterminated(w, p + 4 + n)

\* every slot of w from index p that the decode loop enters has a registered
\* key code and its declared value bytes
RECURSIVE AllSlotsWellFormed(_, _)
AllSlotsWellFormed(w, p) ==
  IF p < 0 THEN FALSE
  ELSE IF Len(w) - p <= 4 THEN TRUE
  ELSE LET n == U16At(w, p + 2)
       IN  /\ U16At(w, p) \in RegisteredCodes
           /\ n <= Len(w) - (p + 4)
           /\ AllSlotsWellFormed(w, p + 4 + n)

\* the index in an emitted record of the slot of the i-th KeyValue of kvs,
\* the header taking start bytes
RECURSIVE SlotOffset(_, _, _)
SlotOffset(kvs, start, i) ==
  IF i <= 1 THEN start
  ELSE SlotOffset(kvs, start, i - 1) + 4 + Len(kvs[i - 1].value)

\* exactly 5 bytes follow the fixed header of the record read
FiveAfterHeader ==
  /\ IsSvcbFlow
  /\ ReadFinished
  /\ HeaderEnd(decoder.buf) >= 0
  /\ Len(decoder.buf) - HeaderEnd(decoder.buf) = 5

\* ------------------------------------------------------------------- claims

\* C1: an SVCB value whose values all fit the 16-bit length field, emitted
\* into a fresh encoder and read back from the emitted bytes, comes back equal
\* (same priority, same target, same parameters in the same order).
C1_SvcbRoundTrip ==
  ( /\ flow = "svcb_emit_read"
    /\ pc = "done"
    /\ encoder.ok
    /\ ~encoder.canonical
    /\ \A i \in 1..Len(rdata.values) : Len(rdata.values[i].value) < U16Mod )
  => read_rdata = [tag |-> "Ok", v |-> rdata]

\* C2: the translation of a key code never fails: read does not abort at a
\* parameter whose key code is not registered.
C2_KeyLookupTotal ==
  (IsSvcbFlow /\ read_rdata.tag = "Panic")
  => U16At(decoder.buf, decoder.index) \in RegisteredCodes

\* C3 (as claimed): with exactly 5 bytes after the fixed header, a read that
\* returns has decoded zero parameters and returned an error or left bytes
\* undecoded.
C3_FiveBytesZeroParams ==
  (FiveAfterHeader /\ read_rdata.tag \in { "Ok", "Err" })
  => /\ values = << >>
     /\ (read_rdata.tag = "Err" \/ Remaining > 0)

\* C3 (amended): with exactly 5 bytes after the fixed header read enters the
\* loop once.  It returns success only with exactly one parameter, whose value
\* is the declared L <= 1 bytes, leaving 1 - L bytes unread; it never returns
\* success when L > 1, and returns an error when L > 1 and the key code is
\* registered.
C3_FiveBytesOneParam ==
  FiveAfterHeader
  => LET start == HeaderEnd(decoder.buf)
         n == U16At(decoder.buf, start + 2)
     IN  /\ read_rdata.tag = "Ok"
              => /\ n <= 1
                 /\ Len(read_rdata.v.values) = 1
                 /\ Len(read_rdata.v.values[1].value) = n
                 /\ Remaining = 1 - n
         /\ n > 1 => read_rdata.tag # "Ok"
         /\ (n > 1 /\ U16At(decoder.buf, start) \in RegisteredCodes)
              => read_rdata.tag = "Err"

C3_Witness ==
  /\ FiveAfterHeader
  /\ read_rdata.tag = "Ok"
  /\ Len(read_rdata.v.values) = 1
  /\ Remaining = 1

\* C4: when a parameter declares more value bytes than the record holds after
\* its length field, read returns an error.
C4_UnterminatedIsError ==
  ( /\ IsSvcbFlow
    /\ ReadFinished
    /\ HasUnterminated(decoder.buf, HeaderEnd(decoder.buf)) )
  => read_rdata.tag = "Err"

\* C5: an SRV value emitted and read back comes back equal; the wire holds
\* priority, weight, port, then the target, and read consumes all of it.
C5_SrvRoundTrip ==
  (flow = "srv_emit_read" /\ pc = "done" /\ encoder.ok)
  => /\ read_rdata = [tag |-> "Ok", v |-> rdata]
     /\ SubSeq(bytes, 1, 6)
          = U16Bytes(rdata.priority) \o U16Bytes(rdata.weight) \o U16Bytes(rdata.port)
     /\ decoder.index = Len(decoder.buf)

C5_Witness ==
  /\ flow = "srv_emit_read"
  /\ pc = "done"
  /\ read_rdata.tag = "Ok"
  /\ rdata.priority = 65535
  /\ rdata.weight = 256
  /\ rdata.target # << >>

\* C6: the decode table and the numeric codes of the keys are inverse: a
\* registered code read from the wire is written back as the same code, and a
\* key written to the wire is read back as the same key.
C6_KeyCodeInverse ==
  /\ (flow = "svcb_read_emit" /\ SvcbEmitDone /\ encoder.ok)
       => \A i \in 1..Len(rdata.values) :
            U16At(bytes, SlotOffset(rdata.values, HeaderEnd(bytes), i))
              = U16At(decoder.buf, SlotOffset(rdata.values, HeaderEnd(decoder.buf), i))
  /\ flow = "svcb_emit_read"
       => \A i \in 1..Len(values) :
            /\ i <= Len(rdata.values)
            /\ values[i].key = rdata.values[i].key

C6_Witness ==
  /\ flow = "svcb_read_emit"
  /\ SvcbEmitDone
  /\ encoder.ok
  /\ Len(rdata.values) = 1
  /\ U16At(bytes, HeaderEnd(bytes)) = 65535

\* C7: srv::parse given fewer than four tokens, each a valid number, fails
\* with MissingToken naming the first absent field in the order priority,
\* weight, port, target.
C7_SrvMissingToken ==
  ( /\ flow = "srv_parse"
    /\ pc = "done"
    /\ Len(tokens) < 4
    /\ \A i \in 1..Len(tokens) :
         tokens[i] \in { CharData(n) : n \in { <<"1">>, <<"2">>, <<"+", "7">>,
                                                 <<"6", "5", "5", "3", "5">> } } )
  => parsed = [tag |-> "Err", kind |-> "MissingToken",
               field |-> << "priority", "weight", "port", "target" >>[Len(tokens) + 1]]

C7_Witness ==
  /\ flow = "srv_parse"
  /\ pc = "done"
  /\ tokens = << CharData(<<"1">>), CharData(<<"2">>) >>
  /\ parsed = [tag |-> "Err", kind |-> "MissingToken", field |-> "port"]

\* C8: whenever svcb::read returns success the returned list is exactly the
\* slots consumed from the wire, in wire order, and at most 4 bytes are left;
\* and whenever 1 to 4 bytes remain at the loop guard, read returns success
\* with the parameters read so far and consumes none of those bytes.
C8_LoopPostcondition ==
  /\ [] ( (IsSvcbFlow /\ read_rdata.tag = "Ok")
          => LET start == HeaderEnd(decoder.buf)
                 slots == SlotsBetween(decoder.buf, start, decoder.index)
                 got == read_rdata.v.values
             IN  /\ Remaining <= 4
                 /\ Len(got) = Len(slots)
                 /\ \A i \in 1..Len(got) :
                      /\ KeyAsU16(got[i].key) = slots[i].code
                      /\ got[i].value = slots[i].value
                 /\ decoder.index
                      = IF slots = << >> THEN start ELSE slots[Len(slots)].next )
  /\ [][ (pc = "svcb_loop" /\ Remaining \in 1..4)
         => /\ read_rdata'.tag = "Ok"
            /\ read_rdata'.v.values = values
            /\ decoder' = decoder ]_vars

C8_Witness ==
  /\ IsSvcbFlow
  /\ read_rdata.tag = "Ok"
  /\ Len(read_rdata.v.values) >= 1
  /\ Remaining = 2

\* C9: in the bytes of a successful svcb::emit the 16-bit length field of
\* every KeyValue equals the number of bytes of its value.
C9_LengthFieldMatches ==
  (SvcbEmitDone /\ encoder.ok)
  => \A i \in 1..Len(rdata.values) :
       U16At(bytes, SlotOffset(rdata.values, HeaderEnd(bytes), i) + 2)
         = Len(rdata.values[i].value)

\* C10: read given a record in which every parameter has a registered key
\* code and its declared value bytes returns a value or an error: it does not
\* abort, whatever the value bytes are.
C10_NoAbortOnPayload ==
  ( /\ IsSvcbFlow
    /\ ReadFinished
    /\ AllSlotsWellFormed(decoder.buf, HeaderEnd(decoder.buf)) )
  => read_rdata.tag \in { "Ok", "Err" }

====
